---- MODULE Spec2Model ----
(***************************************************************************)
(* A model of the MeshCentral websocket client (src/src/meshctrl):         *)
(*   - utils.py: the credential codecs used while constructing a client;   *)
(*   - MeshCtrl.__init__: construction of the client from its arguments;   *)
(*   - MeshCtrl._send / _websocket_call: one connection per call, the      *)
(*     request envelope written on it, inbound messages examined in order. *)
(* A Python str is a sequence of Unicode code points, a bytes object a     *)
(* sequence of 0..255, an Optional[str] a record [some, v], a dict a       *)
(* function whose domain is its set of keys.                               *)
(***************************************************************************)
EXTENDS Integers, Sequences, FiniteSets, TLC

\* Number of invocations of _send that may be in progress at once (threads).
NumCalls == 2
\* Number of inbound messages the server may deliver on one connection.
MaxMsgs == 2

(***************************************************************************)
(* Strings                                                                 *)
(***************************************************************************)
\* str.startswith
StartsWith(s, p) == Len(s) >= Len(p) /\ SubSeq(s, 1, Len(p)) = p

\* str.endswith
EndsWith(s, p) == Len(s) >= Len(p) /\ SubSeq(s, Len(s) - Len(p) + 1, Len(s)) = p

\* the `in` operator on two strings: p occurs in s
Contains(s, p) == \E i \in 0..(Len(s) - Len(p)) : SubSeq(s, i + 1, i + Len(p)) = p

\* s * n
Rep(s, n) == [i \in 1..(n * Len(s)) |-> s[((i - 1) % Len(s)) + 1]]

\* Optional[str]
None == [some |-> FALSE, v |-> <<>>]
Some(s) == [some |-> TRUE, v |-> s]

\* Python truthiness of an Optional[str]: neither None nor ""
Truthy(o) == o.some /\ o.v # <<>>

\* str.encode("utf-8"), for code points below 0x800
RECURSIVE Utf8(_)
Utf8(s) ==
  IF s = <<>> THEN <<>>
  ELSE IF Len(s) = 1
    THEN IF s[1] < 128 THEN s ELSE <<192 + (s[1] \div 64), 128 + (s[1] % 64)>>
  ELSE Utf8(SubSeq(s, 1, Len(s) \div 2)) \o Utf8(SubSeq(s, (Len(s) \div 2) + 1, Len(s)))

\* str(n) for a non-negative int
RECURSIVE IntToStr(_)
IntToStr(n) == IF n < 10 THEN <<48 + n>> ELSE IntToStr(n \div 10) \o <<48 + (n % 10)>>

(***************************************************************************)
(* base64                                                                  *)
(***************************************************************************)
\* "A".."Z", "a".."z", "0".."9": the first 62 characters of every alphabet
B64Common ==
  <<65, 66, 67, 68, 69, 70, 71, 72, 73, 74, 75, 76, 77, 78, 79, 80, 81, 82, 83,
    84, 85, 86, 87, 88, 89, 90, 97, 98, 99, 100, 101, 102, 103, 104, 105, 106,
    107, 108, 109, 110, 111, 112, 113, 114, 115, 116, 117, 118, 119, 120, 121,
    122, 48, 49, 50, 51, 52, 53, 54, 55, 56, 57>>

\* the standard alphabet ends in "+/"
B64Std == B64Common \o <<43, 47>>

\* altchars=b"@$"
B64Alt == B64Common \o <<64, 36>>

\* base64.b64encode(b, altchars): every 3 bytes give 4 characters of the
\* alphabet abc, 6 bits each; a last group of 1 or 2 bytes is padded with "="
B64Encode(b, abc) ==
  LET Byte(i) == IF i <= Len(b) THEN b[i] ELSE 0
      Char(i) ==
        LET q == 3 * ((i - 1) \div 4)
            r == (i - 1) % 4
        IN IF r = 0 THEN abc[(Byte(q + 1) \div 4) + 1]
           ELSE IF r = 1
             THEN abc[((Byte(q + 1) % 4) * 16) + (Byte(q + 2) \div 16) + 1]
           ELSE IF r = 2
             THEN IF q + 2 > Len(b) THEN 61
                  ELSE abc[((Byte(q + 2) % 16) * 4) + (Byte(q + 3) \div 64) + 1]
           ELSE IF q + 3 > Len(b) THEN 61
                ELSE abc[(Byte(q + 3) % 64) + 1]
  IN [i \in 1..(4 * ((Len(b) + 2) \div 3)) |-> Char(i)]

\* utils.str_to_b64
str_to_b64(string) == B64Encode(Utf8(string), B64Std)

\* a variant that appends the token part whenever a token is passed, even ""
get_pwd_auth_any_token(username, password, token) ==
  str_to_b64(username) \o <<44, 32>> \o str_to_b64(password)
    \o (IF token.some THEN <<44, 32>> \o str_to_b64(token.v) ELSE <<>>)

\* utils.get_pwd_auth
get_pwd_auth(username, password, token) ==
  LET token_string == IF Truthy(token) THEN <<44, 32>> \o str_to_b64(token.v) ELSE <<>>
  IN str_to_b64(username) \o <<44, 32>> \o str_to_b64(password) \o token_string

(***************************************************************************)
(* utils.get_auth_token                                                    *)
(***************************************************************************)
\* the value of a hexadecimal digit, 16 for any other character
HexVal(c) ==
  IF c >= 48 /\ c <= 57 THEN c - 48
  ELSE IF c >= 97 /\ c <= 102 THEN c - 87
  ELSE IF c >= 65 /\ c <= 70 THEN c - 55
  ELSE 16

\* ASCII whitespace, which bytes.fromhex skips between bytes
IsSpace(c) == c = 32 \/ (c >= 9 /\ c <= 13)

\* bytes.fromhex(key): two adjacent hex digits per byte, whitespace between
\* bytes ignored, ValueError on anything else. ns lists the positions of the
\* characters that are not whitespace: they must pair up into adjacent digits.
FromHex(s) ==
  LET ns == SelectSeq([i \in 1..Len(s) |-> i], LAMBDA i : ~IsSpace(s[i]))
      ok == /\ Len(ns) % 2 = 0
            /\ \A j \in 1..Len(ns) : HexVal(s[ns[j]]) < 16
            /\ \A b \in 1..(Len(ns) \div 2) : ns[2 * b] = ns[(2 * b) - 1] + 1
  IN IF ok
       THEN [ok |-> TRUE,
             v |-> [b \in 1..(Len(ns) \div 2) |->
                      (16 * HexVal(s[ns[(2 * b) - 1]])) + HexVal(s[ns[2 * b]])]]
       ELSE [ok |-> FALSE, v |-> <<>>]

\* utils.format_user_id
format_user_id(username, domain) ==
  IF ~Contains(username, <<117, 115, 101, 114, 47>>)
    THEN <<117, 115, 101, 114, 47>> \o domain \o <<47>> \o username
    ELSE username

\* the plaintext '{"userid":"..", "domainid":"..", "time":..}' of the login token
TokenMsg(user, domain, now) ==
  <<123, 34, 117, 115, 101, 114, 105, 100, 34, 58, 34>>
    \o format_user_id(user, domain)
    \o <<34, 44, 32, 34, 100, 111, 109, 97, 105, 110, 105, 100, 34, 58, 34>>
    \o domain
    \o <<34, 44, 32, 34, 116, 105, 109, 101, 34, 58>>
    \o IntToStr(now)
    \o <<125>>

\* a ^ b on bytes
RECURSIVE Xor(_, _)
Xor(a, b) ==
  IF a = 0 /\ b = 0 THEN 0
  ELSE ((a + b) % 2) + (2 * Xor(a \div 2, b \div 2))

\* AES.new(key1, AES.MODE_GCM, iv) accepts keys of 16, 24 or 32 bytes and
\* raises ValueError for any other length
AESKeyOk(key1) == Len(key1) \in {16, 24, 32}

\* The key stream of the counter mode under (key1, iv), as a function of both.
KeyStream(key1, iv, i) ==
  (key1[((i - 1) % Len(key1)) + 1] + (3 * iv[((i - 1) % Len(iv)) + 1]) + (7 * i)) % 256

\* a.encrypt_and_digest(pt): the ciphertext is the plaintext xor the key
\* stream, the tag 16 bytes that depend on key, nonce and ciphertext
Encrypt(key1, iv, pt) == [i \in 1..Len(pt) |-> Xor(pt[i], KeyStream(key1, iv, i))]

RECURSIVE SumSeq(_)
SumSeq(s) ==
  IF s = <<>> THEN 0
  ELSE IF Len(s) = 1 THEN s[1]
  ELSE SumSeq(SubSeq(s, 1, Len(s) \div 2)) + SumSeq(SubSeq(s, (Len(s) \div 2) + 1, Len(s)))

Digest(key1, iv, ct) ==
  [j \in 1..16 |-> (SumSeq(ct) + key1[((j - 1) % Len(key1)) + 1] + iv[((j - 1) % Len(iv)) + 1] + j) % 256]

\* get_auth_token with the tag appended after the ciphertext
get_auth_token_tag_last(user, key, domain, iv, now) ==
  LET k == FromHex(key)
  IN IF ~k.ok THEN [ok |-> FALSE, exc |-> "ValueError", v |-> <<>>]
     ELSE LET key1 == SubSeq(k.v, 1, IF Len(k.v) < 32 THEN Len(k.v) ELSE 32)
              msg == Utf8(TokenMsg(user, domain, now))
          IN IF ~AESKeyOk(key1) THEN [ok |-> FALSE, exc |-> "ValueError", v |-> <<>>]
             ELSE LET ct == Encrypt(key1, iv, msg)
                      tag == Digest(key1, iv, ct)
                  IN [ok |-> TRUE, exc |-> "", v |-> B64Encode(iv \o ct \o tag, B64Alt)]

\* utils.get_auth_token; iv is get_random_bytes(12), now is int(time.time())
get_auth_token(user, key, domain, iv, now) ==
  LET k == FromHex(key)
  IN IF ~k.ok THEN [ok |-> FALSE, exc |-> "ValueError", v |-> <<>>]
     ELSE LET key1 == SubSeq(k.v, 1, IF Len(k.v) < 32 THEN Len(k.v) ELSE 32)
              msg == Utf8(TokenMsg(user, domain, now))
          IN IF ~AESKeyOk(key1) THEN [ok |-> FALSE, exc |-> "ValueError", v |-> <<>>]
             ELSE LET ct == Encrypt(key1, iv, msg)
                      tag == Digest(key1, iv, ct)
                  IN [ok |-> TRUE, exc |-> "", v |-> B64Encode(iv \o tag \o ct, B64Alt)]

\* utils.format_usergroup_id
format_usergroup_id(group, domain) ==
  IF ~Contains(group, <<117, 103, 114, 112, 47>>)
    THEN <<117, 103, 114, 112, 47>> \o domain \o <<47>> \o group
    ELSE group

\* utils.format_devicegroup_id: the prefix it tests for is "mesh/", the one
\* it prepends is "ugrp/"
format_devicegroup_id(group, domain) ==
  IF ~Contains(group, <<109, 101, 115, 104, 47>>)
    THEN <<117, 103, 114, 112, 47>> \o domain \o <<47>> \o group
    ELSE group

\* utils.format_node_id
format_node_id(node, domain) ==
  IF ~Contains(node, <<110, 111, 100, 101, 47>>)
    THEN <<110, 111, 100, 101, 47>> \o domain \o <<47>> \o node
    ELSE node

FormatHelpers == {"format_user_id", "format_usergroup_id", "format_devicegroup_id", "format_node_id"}

\* the call helper(name, domain)
FormatId(helper, name, domain) ==
  CASE helper = "format_user_id" -> format_user_id(name, domain)
    [] helper = "format_usergroup_id" -> format_usergroup_id(name, domain)
    [] helper = "format_devicegroup_id" -> format_devicegroup_id(name, domain)
    [] helper = "format_node_id" -> format_node_id(name, domain)

\* the value None
PyNone == [NoneType |-> TRUE]

\* s.split(sep), sep not empty
RECURSIVE Split(_, _)
Split(s, sep) ==
  LET at == {i \in 1..(Len(s) - Len(sep) + 1) : SubSeq(s, i, i + Len(sep) - 1) = sep}
  IN IF at = {} THEN <<s>>
     ELSE LET i == CHOOSE j \in at : \A k \in at : j <= k
          IN <<SubSeq(s, 1, i - 1)>> \o Split(SubSeq(s, i + Len(sep), Len(s)), sep)

\* what a helper call gives: a value, or an exception
Returns(v) == [ok |-> TRUE, exc |-> "", v |-> v]
Raises(type) == [ok |-> FALSE, exc |-> type, v |-> <<>>]

\* utils.filter_devices_by_filter. Its first statement evaluates
\* f.startsWith(...), an attribute a str does not have, whatever f is: the
\* call raises AttributeError before any predicate is looked at.
filter_devices_by_filter(nodes, f, device_groups) == Raises("AttributeError")

\* utils.parse_search_and_input. Its parameter is f; `filter` in its first
\* statement is the builtin, which has no attribute split.
parse_search_and_input(nodes, f, device_groups) == Raises("AttributeError")

\* utils.parse_and_search_nodes: splits the filter on " or " and, for the
\* first part, calls parse_search_and_input with two of its three required
\* arguments. It has no return statement.
parse_and_search_nodes(nodes, filter, device_groups) ==
  LET filters == Split(filter, <<32, 111, 114, 32>>)
  IN IF Len(filters) > 0 THEN Raises("TypeError") ELSE Returns(PyNone)

FilterHelpers == {"parse_and_search_nodes", "parse_search_and_input", "filter_devices_by_filter"}

\* the call helper(nodes, f, device_groups)
FilterCall(helper, nodes, f, device_groups) ==
  CASE helper = "parse_and_search_nodes" -> parse_and_search_nodes(nodes, f, device_groups)
    [] helper = "parse_search_and_input" -> parse_search_and_input(nodes, f, device_groups)
    [] helper = "filter_devices_by_filter" -> filter_devices_by_filter(nodes, f, device_groups)

\* MeshCtrl.list_device_groups, of the "meshes" the server replied: the
\* "mesh//" in front of every _id is dropped
list_device_groups(meshes) ==
  [i \in 1..Len(meshes) |->
     [name |-> meshes[i].name, _id |-> Split(meshes[i]._id, <<47, 47>>)[2]]]

\* MeshCtrl.list_users, of the "users" the server replied
list_users(users) == users

\* the loop of device_group_exists and of user_exists over the listed
\* items: the first test is on the item itself, not on the name argument
RECURSIVE ExistsLoop(_, _, _)
ExistsLoop(items, name, id) ==
  IF items = <<>> THEN FALSE
  ELSE LET item == Head(items)
       IN IF DOMAIN item # {}
            THEN IF name.some /\ item.name = name.v THEN TRUE
                 ELSE ExistsLoop(Tail(items), name, id)
          ELSE IF Truthy(id)
            THEN IF item._id = id.v THEN TRUE
                 ELSE ExistsLoop(Tail(items), name, id)
          ELSE ExistsLoop(Tail(items), name, id)

\* MeshCtrl.device_group_exists(group, id), the server replying meshes
device_group_exists(group, id, meshes) ==
  IF ~Truthy(group) /\ ~Truthy(id) THEN [ok |-> FALSE, exc |-> "ValueError", found |-> FALSE]
  ELSE [ok |-> TRUE, exc |-> "", found |-> ExistsLoop(list_device_groups(meshes), group, id)]

\* MeshCtrl.user_exists(username, id), the server replying users
user_exists(username, id, users) ==
  IF ~Truthy(username) /\ ~Truthy(id) THEN [ok |-> FALSE, exc |-> "ValueError", found |-> FALSE]
  ELSE [ok |-> TRUE, exc |-> "", found |-> ExistsLoop(list_users(users), username, id)]

\* a | b on 16-bit halves
RECURSIVE BitOr(_, _)
BitOr(a, b) ==
  IF a = 0 /\ b = 0 THEN 0
  ELSE (IF (a % 2) + (b % 2) > 0 THEN 1 ELSE 0) + (2 * BitOr(a \div 2, b \div 2))

\* an int below 2^32 as its two 16-bit halves: hi * 65536 + lo
U32(hi, lo) == [hi |-> hi, lo |-> lo]

\* the names user_permissions_str_to_int tests for after "none" and "full",
\* in the order of its elif chain, each with the bit it sets
PermChain ==
  << [name |-> <<98, 97, 99, 107, 117, 112>>, bit |-> 1],                                 \* backup
     [name |-> <<109, 97, 110, 97, 103, 101, 117, 115, 101, 114, 115>>, bit |-> 2],       \* manageusers
     [name |-> <<114, 101, 115, 116, 111, 114, 101>>, bit |-> 4],                         \* restore
     [name |-> <<102, 105, 108, 101, 97, 99, 99, 101, 115, 115>>, bit |-> 8],             \* fileaccess
     [name |-> <<117, 112, 100, 97, 116, 101>>, bit |-> 16],                              \* update
     [name |-> <<108, 111, 99, 107, 101, 100>>, bit |-> 32],                              \* locked
     [name |-> <<110, 111, 110, 101, 119, 103, 114, 111, 117, 112, 115>>, bit |-> 64],    \* nonewgroups
     [name |-> <<110, 111, 116, 111, 111, 108, 115>>, bit |-> 128],                       \* notools
     [name |-> <<117, 115, 101, 114, 103, 114, 111, 117, 112, 115>>, bit |-> 256],        \* usergroups
     [name |-> <<114, 101, 99, 111, 114, 100, 105, 110, 103>>, bit |-> 512],              \* recording
     [name |-> <<108, 111, 99, 107, 115, 101, 116, 116, 105, 110, 103, 115>>, bit |-> 1024], \* locksettings
     [name |-> <<97, 108, 108, 101, 118, 101, 110, 116, 115>>, bit |-> 2048] >>           \* allevents

\* utils.user_permissions_str_to_int: one if/elif chain of substring tests,
\* so the first name found in perms is the only one that sets its bit
user_permissions_str_to_int(perms) ==
  IF Contains(perms, <<110, 111, 110, 101>>) THEN U32(0, 0)
  ELSE IF Contains(perms, <<102, 117, 108, 108>>) THEN U32(65535, 65535)
  ELSE LET hits == {i \in 1..Len(PermChain) : Contains(perms, PermChain[i].name)}
       IN IF hits = {} THEN U32(0, 0)
          ELSE U32(0, BitOr(0, PermChain[CHOOSE i \in hits : \A j \in hits : i <= j].bit))

\* the siteadmin entry add_user or edit_user puts in its envelope for the
\* rights argument: none without rights; edit_user calls
\* utils.permissions_str_to_int, a name utils does not define
SiteAdmin(method, rights) ==
  IF ~Truthy(rights)
    THEN [ok |-> TRUE, exc |-> "", siteadmin |-> [set |-> FALSE, n |-> U32(0, 0)]]
  ELSE IF method = "add_user"
    THEN [ok |-> TRUE, exc |-> "",
          siteadmin |-> [set |-> TRUE, n |-> user_permissions_str_to_int(rights.v)]]
  ELSE [ok |-> FALSE, exc |-> "AttributeError", siteadmin |-> [set |-> FALSE, n |-> U32(0, 0)]]

(***************************************************************************)
(* MeshCtrl.__init__                                                       *)
(***************************************************************************)
\* the dict {} and the dict {"x-meshauth": v}
NoHeaders == [h \in {} |-> <<>>]
MeshAuth(v) == [h \in {"x-meshauth"} |-> v]

Raise(type, msg) ==
  [ok |-> FALSE, exc |-> [type |-> type, msg |-> msg], url |-> <<>>, headers |-> NoHeaders]

\* the url check: len(self.url) < 5 and not wss:// and not ws://
UrlInvalid(url) ==
  /\ Len(url) < 5
  /\ ~StartsWith(url, <<119, 115, 115, 58, 47, 47>>)
  /\ ~StartsWith(url, <<119, 115, 58, 47, 47>>)

\* self.url after the path suffix is appended
WithPath(url) ==
  IF ~EndsWith(url, <<47>>)
    THEN url \o <<47, 99, 111, 110, 116, 114, 111, 108, 46, 97, 115, 104, 120>>
    ELSE url \o <<99, 111, 110, 116, 114, 111, 108, 46, 97, 115, 104, 120>>

\* MeshCtrl(loginkey, token, loginpass, loginuser, logindomain, url): the
\* object built, or the exception raised
New(a, iv, now) ==
  IF UrlInvalid(a.url)
    THEN Raise("ValueError", "Url parameter supplied is invalid")
  ELSE IF ~Truthy(a.loginkey) /\ ~Truthy(a.loginpass)
    THEN Raise("ValueError", "You must configure either password or cookie authentication")
  ELSE
    LET headers1 == IF Truthy(a.loginpass)
                      THEN MeshAuth(get_pwd_auth(a.loginuser, a.loginpass.v, a.token))
                      ELSE NoHeaders
    IN IF ~Truthy(a.loginkey)
         THEN [ok |-> TRUE, exc |-> [type |-> "", msg |-> ""],
               url |-> WithPath(a.url), headers |-> headers1]
       ELSE IF Len(a.loginkey.v) # 160
         THEN Raise("ValueError", "The loginkey is invalid")
       ELSE
         LET tok == get_auth_token(a.loginuser, a.loginkey.v, a.logindomain, iv, now)
         IN IF ~tok.ok THEN Raise(tok.exc, "get_auth_token")
            ELSE [ok |-> TRUE, exc |-> [type |-> "", msg |-> ""],
                  url |-> WithPath(a.url) \o <<63, 97, 117, 116, 104, 61>> \o tok.v,
                  headers |-> headers1]

(***************************************************************************)
(* MeshCtrl._send / MeshCtrl._websocket_call                               *)
(***************************************************************************)
Calls == 1..NumCalls

\* utils.gen_response_id: a fresh uuid4 for every call
gen_response_id(c) == c

\* the public operations modelled, and the envelope each builds
Ops == {"server_info", "add_user"}

Envelope(op, c) ==
  IF op = "server_info" THEN [action |-> "serverinfo"]
  ELSE [action |-> "adduser", responseid |-> gen_response_id(c)]

\* What the server may deliver on a connection: replies and events with or
\* without a responseid, a JSON object without an action, a frame that is
\* not JSON.
Messages ==
  {[action |-> a] : a \in {"serverinfo", "adduser"}}
    \cup {[action |-> a, responseid |-> r] : a \in {"serverinfo", "adduser"}, r \in Calls}
    \cup {[result |-> "ok"], [raw |-> "not json"]}

\* the value None

\* a variant of the loop body that takes a message with a responseid only
\* when its action is the request's as well
ExamineIdAndAction(data, response) ==
  IF "raw" \in DOMAIN response THEN "JSONDecodeError"
  ELSE IF "responseid" \in DOMAIN response
    THEN IF "responseid" \notin DOMAIN data THEN "KeyError"
         ELSE IF data.responseid = response.responseid /\ data.action = response.action
           THEN "return" ELSE "continue"
  ELSE IF "action" \notin DOMAIN response THEN "KeyError"
  ELSE IF data.action = response.action THEN "return"
  ELSE "continue"

\* a variant of the loop body that matches on the action alone
ExamineByAction(data, response) ==
  IF "raw" \in DOMAIN response THEN "JSONDecodeError"
  ELSE IF "action" \notin DOMAIN response THEN "KeyError"
  ELSE IF data.action = response.action THEN "return"
  ELSE "continue"

\* the body of `async for message in websocket`: what one inbound message
\* makes the call do
Examine(data, response) ==
  IF "raw" \in DOMAIN response THEN "JSONDecodeError"
  ELSE IF "responseid" \in DOMAIN response
    THEN IF "responseid" \notin DOMAIN data THEN "KeyError"
         ELSE IF data.responseid = response.responseid THEN "return"
         ELSE "continue"
  ELSE IF "action" \notin DOMAIN response THEN "KeyError"
  ELSE IF data.action = response.action THEN "return"
  ELSE "continue"

\* a variant that keeps one connection for the whole client
DialShared(c) == 1

\* websockets.connect(...) inside _websocket_call: every call dials a
\* connection of its own
Dial(c) == c

VARIABLES
  args,     \* the arguments MeshCtrl was constructed with
  phase,    \* "new" before construction, then "ok" or "raised"
  self,     \* the constructed object: [url, headers]
  exc,      \* the exception __init__ raised
  pc,       \* pc[c]: where call c is in _websocket_call
  data,     \* data[c]: the request envelope of call c
  ws,       \* ws[c]: the connection call c holds, 0 for none
  result,   \* result[c]: what _send gave its caller
  conns,    \* conns[k]: the state of connection k and what was written on it
  hist,     \* the inbound messages the logged call has consumed, in order
  fn,       \* the helper that was applied, "" before
  arg,      \* the arguments it was applied to
  ret       \* what it returned or raised

vars == <<args, phase, self, exc, pc, data, ws, result, conns, hist, fn, arg, ret>>
newVars == <<args, phase, self, exc>>
callVars == <<pc, data, ws, result, conns>>
utilVars == <<fn, arg, ret>>

NoData == [action |-> ""]
Pending == [kind |-> "pending"]
NoConn == [state |-> "none", written |-> <<>>, nrecv |-> 0, peer |-> ""]

CallsIdle ==
  /\ pc = [c \in Calls |-> "idle"]
  /\ data = [c \in Calls |-> NoData]
  /\ ws = [c \in Calls |-> 0]
  /\ result = [c \in Calls |-> Pending]
  /\ conns = [k \in Calls |-> NoConn]
  /\ hist = <<>>

UtilsIdle ==
  /\ fn = ""
  /\ arg = <<>>
  /\ ret = <<>>

\* a public operation builds its envelope and enters _send
Call(c, op) ==
  /\ phase = "ok"
  /\ pc[c] = "idle"
  /\ data' = [data EXCEPT ![c] = Envelope(op, c)]
  /\ pc' = [pc EXCEPT ![c] = "connect"]
  /\ UNCHANGED <<ws, result, conns>>
  /\ UNCHANGED <<newVars, utilVars, hist>>

\* websockets.connect succeeds
ConnectOk(c) ==
  /\ pc[c] = "connect"
  /\ ws' = [ws EXCEPT ![c] = Dial(c)]
  /\ conns' = [conns EXCEPT ![Dial(c)].state = "open"]
  /\ pc' = [pc EXCEPT ![c] = "send"]
  /\ UNCHANGED <<data, result>>
  /\ UNCHANGED <<newVars, utilVars, hist>>

\* a failing connect that leaves a connection open behind it
ConnectFailHalfOpen(c) ==
  /\ pc[c] = "connect"
  /\ result' = [result EXCEPT ![c] = [kind |-> "raise", exc |-> "ConnectionError"]]
  /\ pc' = [pc EXCEPT ![c] = "done"]
  /\ conns' = [conns EXCEPT ![Dial(c)].state = "open"]
  /\ UNCHANGED <<data, ws>>
  /\ UNCHANGED <<newVars, utilVars, hist>>

\* websockets.connect raises (refused, TLS, handshake rejected)
ConnectFail(c) ==
  /\ pc[c] = "connect"
  /\ result' = [result EXCEPT ![c] = [kind |-> "raise", exc |-> "ConnectionError"]]
  /\ pc' = [pc EXCEPT ![c] = "done"]
  /\ UNCHANGED <<data, ws, conns>>
  /\ UNCHANGED <<newVars, utilVars, hist>>

\* websocket.send(json.dumps(data))
Send(c) ==
  /\ pc[c] = "send"
  /\ conns[ws[c]].state = "open"
  /\ conns' = [conns EXCEPT ![ws[c]].written = Append(@, data[c])]
  /\ pc' = [pc EXCEPT ![c] = "recv"]
  /\ UNCHANGED <<data, ws, result>>
  /\ UNCHANGED <<newVars, utilVars, hist>>

\* a send that, finding the transport gone, goes back to connect again
SendClosedRetry(c) ==
  /\ pc[c] = "send"
  /\ conns' = [conns EXCEPT ![ws[c]].state = "closed", ![ws[c]].peer = "error"]
  /\ pc' = [pc EXCEPT ![c] = "connect"]
  /\ UNCHANGED <<data, ws, result>>
  /\ UNCHANGED <<newVars, utilVars, hist>>

\* the transport is gone before the envelope is written: send raises
SendClosed(c) ==
  /\ pc[c] = "send"
  /\ conns' = [conns EXCEPT ![ws[c]].state = "closed", ![ws[c]].peer = "error"]
  /\ result' = [result EXCEPT ![c] = [kind |-> "raise", exc |-> "ConnectionClosed"]]
  /\ pc' = [pc EXCEPT ![c] = "done"]
  /\ UNCHANGED <<data, ws>>
  /\ UNCHANGED <<newVars, utilVars, hist>>

\* a receive step that closes the connection when it returns, and leaves
\* it open when it raises
ReceiveLeak(c, m) ==
  /\ pc[c] = "recv"
  /\ conns[ws[c]].state = "open"
  /\ conns[ws[c]].nrecv < MaxMsgs
  /\ LET k == ws[c]
         n == conns[k].nrecv + 1
         out == Examine(data[c], m)
     IN IF out = "continue"
          THEN /\ conns' = [conns EXCEPT ![k].nrecv = n]
               /\ UNCHANGED <<pc, result>>
          ELSE /\ conns' = [conns EXCEPT ![k].nrecv = n,
                                         ![k].state = IF out = "return" THEN "closed" ELSE "open"]
               /\ pc' = [pc EXCEPT ![c] = "done"]
               /\ result' = [result EXCEPT ![c] =
                    IF out = "return"
                      THEN [kind |-> "return", value |-> m, conn |-> k, seq |-> n]
                      ELSE [kind |-> "raise", exc |-> out, value |-> m, conn |-> k, seq |-> n]]
  /\ UNCHANGED <<data, ws>>
  /\ UNCHANGED <<newVars, utilVars>>

\* the next inbound message is m: json.loads and the two comparisons
Receive(c, m) ==
  /\ pc[c] = "recv"
  /\ conns[ws[c]].state = "open"
  /\ conns[ws[c]].nrecv < MaxMsgs
  /\ LET k == ws[c]
         n == conns[k].nrecv + 1
         out == Examine(data[c], m)
     IN IF out = "continue"
          THEN /\ conns' = [conns EXCEPT ![k].nrecv = n]
               /\ UNCHANGED <<pc, result>>
          ELSE /\ conns' = [conns EXCEPT ![k].nrecv = n, ![k].state = "closed"]
               /\ pc' = [pc EXCEPT ![c] = "done"]
               /\ result' = [result EXCEPT ![c] =
                    IF out = "return"
                      THEN [kind |-> "return", value |-> m, conn |-> k, seq |-> n]
                      ELSE [kind |-> "raise", exc |-> out, value |-> m, conn |-> k, seq |-> n]]
  /\ UNCHANGED <<data, ws>>
  /\ UNCHANGED <<newVars, utilVars>>

Recv(c, m) == Receive(c, m) /\ UNCHANGED hist

\* the same step, the message it consumed written to the log
RecvLogged(c, m) == Receive(c, m) /\ hist' = Append(hist, m)

\* a public operation is called on a client no other call has been made on
CallAlone(c, op) == Call(c, op) /\ \A d \in Calls : pc[d] = "idle"

\* the transport closes while the call waits: a clean close ends the
\* `async for` and the coroutine falls off its end, an unclean one raises
RecvClosed(c, clean) ==
  /\ pc[c] = "recv"
  /\ conns[ws[c]].state = "open"
  /\ conns' = [conns EXCEPT ![ws[c]].state = "closed",
                            ![ws[c]].peer = IF clean THEN "ok" ELSE "error"]
  /\ result' = [result EXCEPT ![c] =
       IF clean THEN [kind |-> "return", value |-> PyNone]
                ELSE [kind |-> "raise", exc |-> "ConnectionClosed"]]
  /\ pc' = [pc EXCEPT ![c] = "done"]
  /\ UNCHANGED <<data, ws>>
  /\ UNCHANGED <<newVars, utilVars, hist>>

(***************************************************************************)
(* Construction inputs                                                     *)
(***************************************************************************)
Urls ==
  { <<119, 115, 115, 58, 47, 47, 104>>,          \* "wss://h"
    <<119, 115, 58, 47, 47, 104, 47>>,            \* "ws://h/"
    <<104, 116, 116, 112, 58, 47, 47, 104>>,      \* "http://h"
    <<97, 98, 99>> }                              \* "abc"

Keys ==
  { None,
    Some(<<>>),
    Some(Rep(<<48, 49, 50, 51, 52, 53, 54, 55, 56, 57, 97, 98, 99, 100, 101, 102>>, 10)),
    Some(Rep(<<97>>, 159)),                                  \* one short
    Some(Rep(<<97>>, 161)),                                  \* one long
    Some(Rep(<<97>>, 159) \o <<103>>),                       \* 160, ends in "g"
    Some(Rep(<<97, 98, 32>>, 52) \o <<97, 98, 97, 98>>),     \* 160, "ab ab ab .."
    Some(Rep(<<97, 98>>, 15) \o Rep(<<32>>, 130)) }          \* 160, 15 bytes

Passwords == { None, Some(<<>>), Some(<<97, 98, 126>>) }             \* "ab~"
Tokens == { None, Some(<<>>), Some(<<49, 50, 51, 52, 53, 54, 55>>) }   \* "1234567"
Users == { <<97, 100, 109, 105, 110>>, <<233>>, <<97, 98, 63>> }       \* "admin", e-acute, "ab?"
Domains == { <<>>, <<100>> }                                           \* "", "d"
IVs == { [i \in 1..12 |-> 0], [i \in 1..12 |-> 20 * i] }
Times == { 1700000000 }

ArgSets ==
  [loginkey : Keys, token : Tokens, loginpass : Passwords, loginuser : Users,
   logindomain : Domains, url : Urls]

\* MeshCtrl(loginpass="pw"): the defaults of every other argument
DefaultArgs ==
  [loginkey |-> None, token |-> None, loginpass |-> Some(<<112, 119>>),
   loginuser |-> <<97, 100, 109, 105, 110>>, logindomain |-> <<>>,
   url |-> <<119, 115, 115, 58, 47, 47, 108, 111, 99, 97, 108, 104, 111, 115,
             116, 58, 52, 52, 51>>]

\* the arguments of a construction, with the nonce and the time it drew
Inputs(a, iv, now) ==
  [loginkey |-> a.loginkey, token |-> a.token, loginpass |-> a.loginpass,
   loginuser |-> a.loginuser, logindomain |-> a.logindomain, url |-> a.url,
   iv |-> iv, now |-> now]

NoObject == [url |-> <<>>, headers |-> NoHeaders]
NoExc == [type |-> "", msg |-> ""]

\* MeshCtrl(...) is evaluated
Construct(a, iv, now) ==
  /\ phase = "new"
  /\ LET r == New(a, iv, now)
     IN /\ phase' = IF r.ok THEN "ok" ELSE "raised"
        /\ self' = [url |-> r.url, headers |-> r.headers]
        /\ exc' = r.exc
  /\ args' = Inputs(a, iv, now)
  /\ UNCHANGED <<callVars, utilVars, hist>>

(***************************************************************************)
(* The helpers of utils.py, applied to arguments of their own              *)
(***************************************************************************)
TokenUsers == Users \cup { <<117, 115, 101, 114, 47, 47, 98, 111, 98>>,   \* "user//bob"
                           <<120, 117, 115, 101, 114, 47, 121>> }         \* "xuser/y"

TokenKeys ==
  { Rep(<<48, 49, 50, 51, 52, 53, 54, 55, 56, 57, 97, 98, 99, 100, 101, 102>>, 10),  \* 160 hex
    Rep(<<70, 69, 68, 67, 66, 65, 57, 56>>, 20),   \* "FEDCBA98" * 20: 160 hex
    Rep(<<97, 98>>, 32),                            \* 64 hex: 32 bytes
    Rep(<<97, 98>>, 16),                            \* 32 hex: 16 bytes
    Rep(<<97, 98>>, 100),                           \* 200 hex: 100 bytes
    Rep(<<97, 98>>, 10),                            \* 20 hex: 10 bytes
    Rep(<<97>>, 159) }                              \* odd number of digits

TokenTimes == { 1700000000, 999999999 }

\* utils.get_auth_token(user, key, domain) is called
ApplyGetAuthToken(user, key, domain, iv, now) ==
  /\ fn = ""
  /\ fn' = "get_auth_token"
  /\ arg' = [user |-> user, key |-> key, domain |-> domain, iv |-> iv, now |-> now]
  /\ ret' = get_auth_token(user, key, domain, iv, now)
  /\ UNCHANGED <<newVars, callVars, hist>>

IdNames ==
  { <<98, 111, 98>>,                                   \* "bob"
    <<108, 97, 98>>,                                   \* "lab"
    <<117, 115, 101, 114, 47, 47, 98, 111, 98>>,       \* "user//bob"
    <<109, 101, 115, 104, 47, 47, 108, 97, 98>>,       \* "mesh//lab"
    <<110, 111, 100, 101, 47, 47, 110, 49>>,           \* "node//n1"
    <<117, 103, 114, 112, 47, 47, 111, 112, 115>>,     \* "ugrp//ops"
    <<120, 117, 115, 101, 114, 47, 121>> }             \* "xuser/y"

\* one of the four id helpers is called on a name
ApplyFormatId(helper, name, domain) ==
  /\ fn = ""
  /\ fn' = helper
  /\ arg' = [name |-> name, domain |-> domain]
  /\ ret' = [id |-> FormatId(helper, name, domain)]
  /\ UNCHANGED <<newVars, callVars, hist>>

\* the helper is called once more, on what it returned
ApplyFormatIdAgain ==
  /\ fn \in FormatHelpers
  /\ "again" \notin DOMAIN ret
  /\ ret' = [id |-> ret.id, again |-> FormatId(fn, ret.id, arg.domain)]
  /\ UNCHANGED <<fn, arg, newVars, callVars, hist>>

\* devices as the server lists them: name, device group, agent tag
Web == [name |-> <<119, 101, 98>>, meshid |-> "m1", tag |-> <<112, 114, 111, 100>>]     \* web, prod
Db == [name |-> <<100, 98>>, meshid |-> "m1", tag |-> <<>>]                             \* db
Lab1 == [name |-> <<108, 97, 98, 49>>, meshid |-> "m2", tag |-> <<112, 114, 111, 100>>] \* lab1, prod
Kiosk == [name |-> <<119, 101, 98>>, meshid |-> "m2", tag |-> <<112, 114>>]             \* web, pr

NodeLists == { <<>>, <<Web>>, <<Web, Db, Lab1, Kiosk>>, <<Lab1, Kiosk>> }

\* the names of the device groups: m1 is "lab", m2 is "office"
DeviceGroupNames ==
  [g \in {"m1", "m2"} |-> IF g = "m1" THEN <<108, 97, 98>> ELSE <<111, 102, 102, 105, 99, 101>>]

Filters ==
  { <<>>,
    <<108, 97, 98>>,                                                              \* "lab"
    <<103, 58, 108, 97, 98>>,                                                     \* "g:lab"
    <<116, 58, 112, 114, 111, 100>>,                                              \* "t:prod"
    <<103, 58, 108, 97, 98, 32, 97, 110, 100, 32, 116, 58, 112, 114, 111, 100>>,  \* "g:lab and t:prod"
    <<103, 58, 108, 97, 98, 32, 111, 114, 32, 116, 58, 112, 114, 111, 100>>,      \* "g:lab or t:prod"
    <<122, 122, 122, 58, 102, 111, 111>>,                                         \* "zzz:foo"
    <<103, 114, 111, 117, 112, 58, 108, 97, 98>>,                                 \* "group:lab"
    <<116, 97, 103, 58, 112, 114, 111, 100>> }                                    \* "tag:prod"

\* one of the filter helpers is called
ApplyFilter(helper, nodes, f) ==
  /\ fn = ""
  /\ fn' = helper
  /\ arg' = [nodes |-> nodes, filter |-> f, device_groups |-> DeviceGroupNames]
  /\ ret' = FilterCall(helper, nodes, f, DeviceGroupNames)
  /\ UNCHANGED <<newVars, callVars, hist>>

\* what the server replies to "meshes" and to "users"
MeshesReplies ==
  { <<>>,
    <<[name |-> <<108, 97, 98>>, _id |-> <<109, 101, 115, 104, 47, 47, 65>>]>>,         \* lab, mesh//A
    <<[name |-> <<108, 97, 98>>, _id |-> <<109, 101, 115, 104, 47, 47, 65>>],
      [name |-> <<111, 102, 102, 105, 99, 101>>, _id |-> <<109, 101, 115, 104, 47, 47, 66>>]>> }  \* office, mesh//B

UsersReplies ==
  { <<>>,
    <<[name |-> <<98, 111, 98>>, _id |-> <<117, 115, 101, 114, 47, 47, 98, 111, 98>>]>>,   \* bob, user//bob
    <<[name |-> <<98, 111, 98>>, _id |-> <<117, 115, 101, 114, 47, 47, 98, 111, 98>>],
      [name |-> <<97, 109, 121>>, _id |-> <<117, 115, 101, 114, 47, 47, 97, 109, 121>>]>> }  \* amy, user//amy

GroupNameArgs == { None, Some(<<>>), Some(<<108, 97, 98>>), Some(<<66>>) }             \* "", "lab", "B"
GroupIdArgs == { None, Some(<<65>>), Some(<<66>>), Some(<<108, 97, 98>>) }             \* "A", "B", "lab"
UserNameArgs == { None, Some(<<>>), Some(<<98, 111, 98>>), Some(<<122>>) }             \* "", "bob", "z"
UserIdArgs == { None, Some(<<117, 115, 101, 114, 47, 47, 97, 109, 121>>), Some(<<98, 111, 98>>) }  \* "user//amy", "bob"

\* device_group_exists(group, id) is called and the server lists meshes
ApplyDeviceGroupExists(group, id, meshes) ==
  /\ fn = ""
  /\ fn' = "device_group_exists"
  /\ arg' = [name |-> group, id |-> id, listed |-> list_device_groups(meshes)]
  /\ ret' = device_group_exists(group, id, meshes)
  /\ UNCHANGED <<newVars, callVars, hist>>

\* user_exists(username, id) is called and the server lists users
ApplyUserExists(username, id, users) ==
  /\ fn = ""
  /\ fn' = "user_exists"
  /\ arg' = [name |-> username, id |-> id, listed |-> list_users(users)]
  /\ ret' = user_exists(username, id, users)
  /\ UNCHANGED <<newVars, callVars, hist>>

RightsArgs ==
  { None, Some(<<>>),
    Some(<<98, 97, 99, 107, 117, 112>>),                                                  \* "backup"
    Some(<<98, 97, 99, 107, 117, 112, 44, 114, 101, 115, 116, 111, 114, 101>>),           \* "backup,restore"
    Some(<<114, 101, 115, 116, 111, 114, 101, 44, 98, 97, 99, 107, 117, 112>>),           \* "restore,backup"
    Some(<<109, 97, 110, 97, 103, 101, 117, 115, 101, 114, 115, 44, 102, 105, 108, 101, 97, 99, 99, 101, 115, 115>>),  \* "manageusers,fileaccess"
    Some(<<110, 111, 110, 101>>),                                                         \* "none"
    Some(<<102, 117, 108, 108>>),                                                         \* "full"
    Some(<<110, 111, 110, 101, 119, 103, 114, 111, 117, 112, 115>>),                      \* "nonewgroups"
    Some(<<114, 101, 99, 111, 114, 100, 105, 110, 103, 115>>),                            \* "recordings"
    Some(<<97, 108, 108, 101, 118, 101, 110, 116, 115>>) }                                \* "allevents"

\* add_user(..., rights=rights) or edit_user(..., rights=rights) builds its envelope
ApplyRights(method, rights) ==
  /\ fn = ""
  /\ fn' = method
  /\ arg' = [rights |-> rights]
  /\ ret' = SiteAdmin(method, rights)
  /\ UNCHANGED <<newVars, callVars, hist>>

(***************************************************************************)
(* Specifications                                                          *)
(***************************************************************************)
\* Construction of a client, over all argument combinations.
InitNew ==
  /\ args = Inputs(DefaultArgs, <<>>, 0)
  /\ phase = "new"
  /\ self = NoObject
  /\ exc = NoExc
  /\ CallsIdle
  /\ UtilsIdle

NextNew == \E a \in ArgSets, iv \in IVs, now \in Times : Construct(a, iv, now)

SpecNew == InitNew /\ [][NextNew]_vars

\* Calls on a constructed client.
Init ==
  /\ args = Inputs(DefaultArgs, <<>>, 0)
  /\ phase = "ok"
  /\ self = [url |-> New(DefaultArgs, <<>>, 0).url, headers |-> New(DefaultArgs, <<>>, 0).headers]
  /\ exc = NoExc
  /\ CallsIdle
  /\ UtilsIdle

Next ==
  \E c \in Calls :
    \/ \E op \in Ops : Call(c, op)
    \/ ConnectOk(c)
    \/ ConnectFail(c)
    \/ Send(c)
    \/ SendClosed(c)
    \/ \E m \in Messages : Recv(c, m)
    \/ \E clean \in BOOLEAN : RecvClosed(c, clean)

Spec == Init /\ [][Next]_vars

\* The helpers of utils.py, each applied once.
InitUtils == Init

NextUtils ==
  \/ \E user \in TokenUsers, key \in TokenKeys, domain \in Domains, iv \in IVs, now \in TokenTimes :
       ApplyGetAuthToken(user, key, domain, iv, now)
  \/ \E helper \in FormatHelpers, name \in IdNames, domain \in Domains :
       ApplyFormatId(helper, name, domain)
  \/ ApplyFormatIdAgain
  \/ \E helper \in FilterHelpers, nodes \in NodeLists, f \in Filters :
       ApplyFilter(helper, nodes, f)
  \/ \E group \in GroupNameArgs, id \in GroupIdArgs, meshes \in MeshesReplies :
       ApplyDeviceGroupExists(group, id, meshes)
  \/ \E username \in UserNameArgs, id \in UserIdArgs, users \in UsersReplies :
       ApplyUserExists(username, id, users)
  \/ \E method \in {"add_user", "edit_user"}, rights \in RightsArgs :
       ApplyRights(method, rights)

SpecUtils == InitUtils /\ [][NextUtils]_vars

\* One call on a constructed client, with the log of the inbound messages
\* it consumed.
InitLog == Init

NextLog ==
  \E c \in Calls :
    \/ \E op \in Ops : CallAlone(c, op)
    \/ ConnectOk(c)
    \/ ConnectFail(c)
    \/ Send(c)
    \/ SendClosed(c)
    \/ \E m \in Messages : RecvLogged(c, m)
    \/ \E clean \in BOOLEAN : RecvClosed(c, clean)

SpecLog == InitLog /\ [][NextLog]_vars

(***************************************************************************)
(* Operations that check their arguments                                   *)
(***************************************************************************)
\* MeshCtrl.device_group_exists up to its request: the check of its
\* arguments, then list_device_groups' envelope
device_group_exists_request(group, id) ==
  IF ~Truthy(group) /\ ~Truthy(id) THEN Raises("ValueError")
  ELSE Returns([action |-> "meshes"])

\* MeshCtrl.remove_device_group: the envelope it hands to _send, or the
\* exception it raises first
remove_device_group(group, id, rid) ==
  IF ~Truthy(group) /\ ~Truthy(id) THEN Raises("ValueError")
  ELSE IF Truthy(group)
    THEN Returns([action |-> "deletemesh", responseid |-> rid, meshname |-> group.v])
    ELSE Returns([action |-> "deletemesh", responseid |-> rid, meshid |-> id.v])

\* MeshCtrl.edit_device_group, name, desc, features and consent left at
\* their defaults
edit_device_group(group, id, rid) ==
  IF ~Truthy(group) /\ ~Truthy(id) THEN Raises("ValueError")
  ELSE IF Truthy(group)
    THEN Returns([action |-> "editmesh", responseid |-> rid, meshidname |-> group.v])
    ELSE Returns([action |-> "editmesh", responseid |-> rid, meshid |-> id.v])

\* MeshCtrl.add_user, the optional fields left at their defaults; gen is
\* what utils.gen_password() draws
add_user(username, password, random_pass, gen, rid) ==
  IF ~Truthy(password) /\ ~random_pass THEN Raises("ValueError")
  ELSE Returns([action |-> "adduser", username |-> username,
                pass |-> IF random_pass THEN Some(gen) ELSE password,
                responseid |-> rid])

\* MeshCtrl.add_to_user_group
add_to_user_group(group_id, id, domain, rights, rid) ==
  IF StartsWith(id, <<117, 115, 101, 114, 47>>)
    THEN IF Len(Split(id, <<47>>)) < 3 THEN Raises("IndexError")
         ELSE Returns([responseid |-> rid, action |-> "addusertousergroup",
                       ugrpid |-> format_usergroup_id(group_id, domain),
                       usernames |-> <<Split(id, <<47>>)[3]>>])
  ELSE IF StartsWith(id, <<109, 101, 115, 104, 47>>)
    THEN Returns([responseid |-> rid, action |-> "addmeshuser",
                  userid |-> format_usergroup_id(group_id, domain),
                  meshid |-> id, meshadmin |-> rights])
  ELSE IF StartsWith(id, <<110, 111, 100, 101, 47>>)
    THEN Returns([responseid |-> rid, action |-> "adddeviceuser",
                  nodeid |-> format_node_id(id, <<>>),
                  userids |-> <<format_usergroup_id(group_id, domain)>>,
                  meshadmin |-> rights])
  ELSE Raises("ValueError")

\* MeshCtrl.remove_from_user_group
remove_from_user_group(group_id, id, domain, rid) ==
  IF StartsWith(id, <<117, 115, 101, 114, 47>>)
    THEN Returns([responseid |-> rid, action |-> "removeuserfromusergroup",
                  ugrpid |-> format_usergroup_id(group_id, domain), userid |-> id])
  ELSE IF StartsWith(id, <<109, 101, 115, 104, 47>>)
    THEN Returns([responseid |-> rid, action |-> "removemeshuser",
                  userid |-> format_usergroup_id(group_id, domain), meshid |-> id])
  ELSE IF StartsWith(id, <<110, 111, 100, 101, 47>>)
    THEN Returns([responseid |-> rid, action |-> "adddeviceuser",
                  nodeid |-> format_node_id(id, <<>>),
                  userids |-> <<format_usergroup_id(group_id, domain)>>,
                  meshadmin |-> 0, remove |-> TRUE])
  ELSE Raises("ValueError")

Methods ==
  {"device_group_exists", "remove_device_group", "edit_device_group", "add_user",
   "add_to_user_group", "remove_from_user_group"}

\* method(**a) up to its call of _send, in call c
Request(method, a, gen, c) ==
  CASE method = "device_group_exists" -> device_group_exists_request(a.group, a.id)
    [] method = "remove_device_group" -> remove_device_group(a.group, a.id, gen_response_id(c))
    [] method = "edit_device_group" -> edit_device_group(a.group, a.id, gen_response_id(c))
    [] method = "add_user" ->
         add_user(a.username, a.password, a.random_pass, gen, gen_response_id(c))
    [] method = "add_to_user_group" ->
         add_to_user_group(a.group_id, a.id, a.domain, a.rights, gen_response_id(c))
    [] method = "remove_from_user_group" ->
         remove_from_user_group(a.group_id, a.id, a.domain, gen_response_id(c))

MemberIds ==
  { <<117, 115, 101, 114, 47, 47, 98, 111, 98>>,          \* "user//bob"
    <<117, 115, 101, 114, 47, 120>>,            \* "user/x"
    <<109, 101, 115, 104, 47, 47, 65>>,            \* "mesh//A"
    <<110, 111, 100, 101, 47, 47, 110, 49>>,           \* "node//n1"
    <<98, 111, 98>>,              \* "bob"
    <<>> }

UserGroupIds == { <<103, 49>> }                       \* "g1"
MeshRights == { 0, 4 }
GenPasswords == { <<97, 98, 99, 49, 50, 51, 52>> }   \* "abc1234"

\* the arguments the operations are called with
MethodArgs(method) ==
  CASE method \in {"device_group_exists", "remove_device_group", "edit_device_group"} ->
         [group : GroupNameArgs, id : GroupIdArgs]
    [] method = "add_user" ->
         [username : Users, password : Passwords, random_pass : BOOLEAN]
    [] method = "add_to_user_group" ->
         [group_id : UserGroupIds, id : MemberIds, domain : Domains, rights : MeshRights]
    [] method = "remove_from_user_group" ->
         [group_id : UserGroupIds, id : MemberIds, domain : Domains]

\* what the server may deliver to these operations
ApiMessages == Messages \cup {[action |-> "meshes"]}

\* an operation that sends its request without looking at its arguments
InvokeUnchecked(c, method, a, gen) ==
  /\ phase = "ok"
  /\ fn = ""
  /\ \A d \in Calls : pc[d] = "idle"
  /\ fn' = method
  /\ arg' = a
  /\ LET out == Request(method, a, gen, c)
     IN data' = [data EXCEPT ![c] =
                   IF out.ok THEN out.v ELSE [action |-> method, responseid |-> gen_response_id(c)]]
  /\ pc' = [pc EXCEPT ![c] = "connect"]
  /\ UNCHANGED <<ws, result, conns, ret>>
  /\ UNCHANGED <<newVars, hist>>

\* method(**a) is called on a client no other call has been made on: it
\* raises, or builds its envelope and enters _send
Invoke(c, method, a, gen) ==
  /\ phase = "ok"
  /\ fn = ""
  /\ \A d \in Calls : pc[d] = "idle"
  /\ fn' = method
  /\ arg' = a
  /\ LET out == Request(method, a, gen, c)
     IN IF out.ok
          THEN /\ data' = [data EXCEPT ![c] = out.v]
               /\ pc' = [pc EXCEPT ![c] = "connect"]
               /\ UNCHANGED result
          ELSE /\ result' = [result EXCEPT ![c] = [kind |-> "raise", exc |-> out.exc]]
               /\ pc' = [pc EXCEPT ![c] = "done"]
               /\ UNCHANGED data
  /\ UNCHANGED <<ws, conns, ret>>
  /\ UNCHANGED <<newVars, hist>>

\* One operation that checks its arguments, called on a constructed client.
InitApi == Init

NextApi ==
  \E c \in Calls :
    \/ \E method \in Methods : \E a \in MethodArgs(method), gen \in GenPasswords :
         Invoke(c, method, a, gen)
    \/ ConnectOk(c)
    \/ ConnectFail(c)
    \/ Send(c)
    \/ SendClosed(c)
    \/ \E m \in ApiMessages : Recv(c, m)
    \/ \E clean \in BOOLEAN : RecvClosed(c, clean)

SpecApi == InitApi /\ [][NextApi]_vars

(***************************************************************************)
(* Properties                                                              *)
(***************************************************************************)
\* message M answers request D: by responseid when M carries one, else by action
Answers(D, M) ==
  \/ /\ "responseid" \in DOMAIN M
     /\ "responseid" \in DOMAIN D
     /\ M.responseid = D.responseid
  \/ /\ "responseid" \notin DOMAIN M
     /\ "action" \in DOMAIN M
     /\ M.action = D.action

IsNone(v) == "NoneType" \in DOMAIN v

\* C1: whatever _send returns to its caller is an inbound message that
\* answers the request, by responseid or, lacking one, by action.
C1_ReturnsOnlyMatchingReply ==
  \A c \in Calls :
    result[c].kind = "return" =>
      /\ ~IsNone(result[c].value)
      /\ Answers(data[c], result[c].value)

\* C2: every envelope written on a connection carries an action and a
\* responseid.
C2_EnvelopeHasActionAndResponseid ==
  \A k \in Calls : \A i \in 1..Len(conns[k].written) :
    {"action", "responseid"} \subseteq DOMAIN conns[k].written[i]

\* an envelope (a JSON object with an action) that matches the request
\* neither by responseid nor by action
NoMatch(D, M) ==
  /\ "action" \in DOMAIN M
  /\ M.action # D.action
  /\ ~("responseid" \in DOMAIN M /\ "responseid" \in DOMAIN D /\ M.responseid = D.responseid)

\* C3: a message that matches neither by responseid nor by action never
\* ends the call: the call neither returns on it nor raises on it.
C3_NonMatchingMessageIsDiscarded ==
  \A c \in Calls :
    (result[c].kind \in {"return", "raise"} /\ "seq" \in DOMAIN result[c]) =>
      ~NoMatch(data[c], result[c].value)

\* C4: a call whose transport closed while it waited for its reply ended
\* with the ConnectionClosed error.
C4_CloseWhileWaitingRaisesConnectionClosed ==
  \A c \in Calls :
    (pc[c] = "done" /\ ws[c] # 0 /\ conns[ws[c]].peer # "" /\ conns[ws[c]].written # <<>>) =>
      result[c] = [kind |-> "raise", exc |-> "ConnectionClosed"]

\* the replies a server forms for request D: its action, with D's responseid
\* echoed or left out
RepliesTo(D) ==
  {[action |-> D.action]}
    \cup (IF "responseid" \in DOMAIN D
            THEN {[action |-> D.action, responseid |-> D.responseid]}
            ELSE {})

Resolved(c) == result[c].kind = "return" /\ ~IsNone(result[c].value)

\* C5: with several calls in progress and replies delivered in any order,
\* a call resolved with a reply got one that answers its own request, read
\* from the connection that carries its own envelope and no other; it read
\* nothing after it (resolved once); no delivered message resolved two
\* calls; and every reply to a call's request resolves that call.
C5_EachCallResolvedByItsOwnReply ==
  \A c \in Calls :
    /\ pc[c] # "idle" => \A M \in RepliesTo(data[c]) : Examine(data[c], M) = "return"
    /\ Resolved(c) =>
         /\ Answers(data[c], result[c].value)
         /\ result[c].conn = ws[c]
         /\ conns[ws[c]].written = <<data[c]>>
         /\ result[c].seq = conns[ws[c]].nrecv
         /\ \A d \in Calls \ {c} :
              Resolved(d) => <<result[d].conn, result[d].seq>> # <<result[c].conn, result[c].seq>>

\* C5 witness: call 2 is resolved by a reply carrying its responseid while
\* call 1, issued as well, has skipped a message and still waits.
C5_Witness ==
  /\ Resolved(2)
  /\ "responseid" \in DOMAIN result[2].value
  /\ pc[1] = "recv"
  /\ conns[ws[1]].nrecv >= 1

Established == {k \in Calls : conns[k].state # "none"}

\* C6 as stated: over any sequence of calls at most one connection is
\* established.
C6_AtMostOneConnection == Cardinality(Established) <= 1

\* C6 amended: every call establishes a connection of its own; as many
\* connections exist as calls connected, no connection is held by two
\* calls, and the only envelope on a connection is that of its call.
C6_OneConnectionPerCall ==
  /\ Cardinality(Established) = Cardinality({c \in Calls : ws[c] # 0})
  /\ \A c, d \in Calls : (c # d /\ ws[c] # 0) => ws[c] # ws[d]
  /\ \A c \in Calls :
       ws[c] # 0 =>
         /\ conns[ws[c]].written \in {<<>>, <<data[c]>>}
         /\ pc[c] = "recv" => conns[ws[c]].written = <<data[c]>>

\* C6 witness: two calls have connected and written, each on its own
\* connection.
C6_Witness ==
  /\ ws[1] # 0 /\ ws[2] # 0 /\ ws[1] # ws[2]
  /\ conns[ws[1]].written = <<data[1]>>
  /\ conns[ws[2]].written = <<data[2]>>

HasWsScheme(u) ==
  StartsWith(u, <<119, 115, 115, 58, 47, 47>>) \/ StartsWith(u, <<119, 115, 58, 47, 47>>)

Is160Hex(key) == Len(key) = 160 /\ \A i \in 1..Len(key) : HexVal(key[i]) < 16

\* C7: construction fails with ValueError when neither loginkey nor
\* loginpass is given and when the loginkey given is not 160 hexadecimal
\* characters; with a websocket url it succeeds in every other case.
C7_FailsExactlyOnBadCredentials ==
  phase # "new" =>
    LET bad == \/ ~Truthy(args.loginkey) /\ ~Truthy(args.loginpass)
               \/ Truthy(args.loginkey) /\ ~Is160Hex(args.loginkey.v)
    IN /\ bad => (phase = "raised" /\ exc.type = "ValueError")
       /\ (~bad /\ HasWsScheme(args.url)) => phase = "ok"

HasAuthHeader == "x-meshauth" \in DOMAIN self.headers
HasAuthParam == Contains(self.url, <<63, 97, 117, 116, 104, 61>>)

\* C8: a constructed client has exactly one auth mode: the x-meshauth
\* header or the auth= query parameter, not both and not neither.
C8_ExactlyOneAuthMode == phase = "ok" => (HasAuthHeader # HasAuthParam)

\* C9: construction with a url that starts with neither ws:// nor wss://
\* fails with a ValueError, whatever the url's length, and leaves no client.
C9_UrlWithoutWsSchemeRejected ==
  (phase # "new" /\ ~HasWsScheme(args.url)) =>
    /\ phase = "raised"
    /\ exc.type = "ValueError"
    /\ self = NoObject

\* the position of a character in the standard base64 alphabet, 64 for "="
\* and 65 for a character outside of it
StdIndex(ch) ==
  IF ch >= 65 /\ ch <= 90 THEN ch - 65
  ELSE IF ch >= 97 /\ ch <= 122 THEN ch - 71
  ELSE IF ch >= 48 /\ ch <= 57 THEN ch + 4
  ELSE IF ch = 43 THEN 62
  ELSE IF ch = 47 THEN 63
  ELSE IF ch = 61 THEN 64
  ELSE 65

\* t is standard base64: groups of 4 characters of the alphabet, "=" only
\* as the last one or two characters
IsStdB64(t) ==
  /\ Len(t) % 4 = 0
  /\ \A i \in 1..Len(t) :
       \/ StdIndex(t[i]) < 64
       \/ /\ StdIndex(t[i]) = 64
          /\ i >= Len(t) - 1
          /\ (i = Len(t) - 1 => t[Len(t)] = 61)

\* the bytes a standard base64 text stands for
B64Decode(t) ==
  LET pad == Cardinality({i \in 1..Len(t) : t[i] = 61})
      V(i) == IF StdIndex(t[i]) < 64 THEN StdIndex(t[i]) ELSE 0
      Byte(p) ==
        LET q == 4 * ((p - 1) \div 3)
            r == (p - 1) % 3
        IN IF r = 0 THEN (V(q + 1) * 4) + (V(q + 2) \div 16)
           ELSE IF r = 1 THEN ((V(q + 2) % 16) * 16) + (V(q + 3) \div 4)
           ELSE ((V(q + 3) % 4) * 64) + V(q + 4)
  IN [p \in 1..((3 * (Len(t) \div 4)) - pad) |-> Byte(p)]

\* h.split(", ")
SplitCommaSpace(h) ==
  LET at == SelectSeq([i \in 1..Len(h) |-> i],
                      LAMBDA i : i < Len(h) /\ h[i] = 44 /\ h[i + 1] = 32)
      From(j) == IF j = 1 THEN 1 ELSE at[j - 1] + 2
      To(j) == IF j = Len(at) + 1 THEN Len(h) ELSE at[j] - 1
  IN [j \in 1..(Len(at) + 1) |-> SubSeq(h, From(j), To(j))]

\* C10: the x-meshauth value get_pwd_auth builds splits on ", " into the
\* standard base64 of the username and of the password, followed by that of
\* the token exactly when a (non-empty) token was given: two parts without
\* a token, three with one.
C10_PwdAuthIsCommaJoinedBase64 ==
  (phase = "ok" /\ Truthy(args.loginpass)) =>
    LET parts == SplitCommaSpace(self.headers["x-meshauth"])
        given == <<args.loginuser, args.loginpass.v>>
                   \o (IF Truthy(args.token) THEN <<args.token.v>> ELSE <<>>)
    IN /\ Len(parts) = Len(given)
       /\ Len(parts) = IF Truthy(args.token) THEN 3 ELSE 2
       /\ \A j \in 1..Len(parts) :
            /\ IsStdB64(parts[j])
            /\ B64Decode(parts[j]) = Utf8(given[j])

\* C10 witness: a client built with a password and a token: three parts,
\* one of them padded and one holding "+" or "/".
C10_Witness ==
  /\ phase = "ok"
  /\ Truthy(args.loginpass)
  /\ Truthy(args.token)
  /\ Len(SplitCommaSpace(self.headers["x-meshauth"])) = 3
  /\ \E i \in 1..Len(self.headers["x-meshauth"]) : self.headers["x-meshauth"][i] \in {43, 47}
  /\ \E i \in 1..Len(self.headers["x-meshauth"]) : self.headers["x-meshauth"][i] = 61

\* the position of a character in the base64 alphabet with "@" for "+" and
\* "$" for "/", 64 for "=" and 65 for a character outside of it
AltIndex(ch) ==
  IF ch >= 65 /\ ch <= 90 THEN ch - 65
  ELSE IF ch >= 97 /\ ch <= 122 THEN ch - 71
  ELSE IF ch >= 48 /\ ch <= 57 THEN ch + 4
  ELSE IF ch = 64 THEN 62
  ELSE IF ch = 36 THEN 63
  ELSE IF ch = 61 THEN 64
  ELSE 65

IsAltB64(t) ==
  /\ Len(t) % 4 = 0
  /\ \A i \in 1..Len(t) :
       \/ AltIndex(t[i]) < 64
       \/ /\ AltIndex(t[i]) = 64
          /\ i >= Len(t) - 1
          /\ (i = Len(t) - 1 => t[Len(t)] = 61)

\* the bytes a base64 text in that alphabet stands for
B64AltDecode(t) ==
  LET pad == Cardinality({i \in 1..Len(t) : t[i] = 61})
      V(i) == IF AltIndex(t[i]) < 64 THEN AltIndex(t[i]) ELSE 0
      Byte(p) ==
        LET q == 4 * ((p - 1) \div 3)
            r == (p - 1) % 3
        IN IF r = 0 THEN (V(q + 1) * 4) + (V(q + 2) \div 16)
           ELSE IF r = 1 THEN ((V(q + 2) % 16) * 16) + (V(q + 3) \div 4)
           ELSE ((V(q + 3) % 4) * 64) + V(q + 4)
  IN [p \in 1..((3 * (Len(t) \div 4)) - pad) |-> Byte(p)]

\* decryption under (key1, iv): the inverse of the key stream cipher
Decrypt(key1, iv, ct) == [i \in 1..Len(ct) |-> Xor(ct[i], KeyStream(key1, iv, i))]

\* the text {"userid":"<userid>", "domainid":"<domain>", "time":<now>}
Plaintext(userid, domain, now) ==
  <<123, 34, 117, 115, 101, 114, 105, 100, 34, 58, 34>> \o userid
    \o <<34, 44, 32, 34, 100, 111, 109, 97, 105, 110, 105, 100, 34, 58, 34>> \o domain
    \o <<34, 44, 32, 34, 116, 105, 109, 101, 34, 58>> \o IntToStr(now) \o <<125>>

\* "user/<domain>/<username>"
QualifiedUser(username, domain) == <<117, 115, 101, 114, 47>> \o domain \o <<47>> \o username

\* token t decodes to nonce(12) + tag(16) + ciphertext, and the first 32
\* bytes of the key open it to the plaintext of userid
TokenOpens(a, t, userid) ==
  LET raw == B64AltDecode(t)
      key1 == SubSeq(FromHex(a.key).v, 1, 32)
      iv == SubSeq(raw, 1, 12)
      tag == SubSeq(raw, 13, 28)
      ct == SubSeq(raw, 29, Len(raw))
  IN /\ IsAltB64(t)
     /\ Len(raw) >= 28
     /\ iv = a.iv
     /\ tag = Digest(key1, iv, ct)
     /\ Decrypt(key1, iv, ct) = Utf8(Plaintext(userid, a.domain, a.now))

\* C11 as stated: for every valid 160-hex key, username, domain and time the
\* login token decodes (base64 with "@" and "$") to nonce, tag and ciphertext
\* and opens under the first 32 key bytes to the plaintext whose userid is
\* user/<domain>/<username>, whose domainid is the domain and whose time is
\* the unix time.
C11_TokenRoundTrip ==
  (fn = "get_auth_token" /\ Is160Hex(arg.key)) =>
    /\ ret.ok
    /\ TokenOpens(arg, ret.v, QualifiedUser(arg.user, arg.domain))

\* C11 amended: the same, with the userid user/<domain>/<username> for a
\* username that does not contain "user/", and the username itself,
\* unchanged, for one that does.
C11_TokenRoundTripQualified ==
  (fn = "get_auth_token" /\ Is160Hex(arg.key)) =>
    /\ ret.ok
    /\ TokenOpens(arg, ret.v,
         IF Contains(arg.user, <<117, 115, 101, 114, 47>>)
           THEN arg.user ELSE QualifiedUser(arg.user, arg.domain))

\* C11 witness: a token built from a valid key for a bare username in a
\* named domain, holding one of the two substituted characters.
C11_Witness ==
  /\ fn = "get_auth_token"
  /\ Is160Hex(arg.key)
  /\ ~Contains(arg.user, <<117, 115, 101, 114, 47>>)
  /\ arg.domain # <<>>
  /\ ret.ok
  /\ \E i \in 1..Len(ret.v) : ret.v[i] \in {64, 36}

\* C12: the token builder itself fails for every key that is not exactly 80
\* bytes (160 hexadecimal characters): it never produces a token from a
\* shorter or a longer key.
C12_TokenBuilderRejectsOtherKeyLengths ==
  (fn = "get_auth_token" /\ ~Is160Hex(arg.key)) => ~ret.ok

\* the prefix of the ids a helper is to produce
IdPrefix(helper) ==
  CASE helper = "format_user_id" -> <<117, 115, 101, 114, 47>>            \* "user/"
    [] helper = "format_devicegroup_id" -> <<109, 101, 115, 104, 47>>     \* "mesh/"
    [] helper = "format_node_id" -> <<110, 111, 100, 101, 47>>            \* "node/"
    [] helper = "format_usergroup_id" -> <<117, 103, 114, 112, 47>>       \* "ugrp/"

\* C13: for every bare name and domain format_user_id gives
\* user/<domain>/<name>, format_devicegroup_id mesh/<domain>/<name>,
\* format_node_id node/<domain>/<name>, format_usergroup_id
\* ugrp/<domain>/<name>.
C13_IdHelpersPrependTheirPrefix ==
  (fn \in FormatHelpers /\ ~Contains(arg.name, IdPrefix(fn))) =>
    ret.id = IdPrefix(fn) \o arg.domain \o <<47>> \o arg.name

\* C14: each id helper is idempotent: applied to its own result, with the
\* same domain, it returns that result.
C14_IdHelpersIdempotent ==
  (fn \in FormatHelpers /\ "again" \in DOMAIN ret) => ret.again = ret.id

\* the prefixes the filter language knows
FilterPrefixes ==
  { <<117, 115, 101, 114, 58>>, <<117, 58>>, <<105, 112, 58>>,           \* user: u: ip:
    <<103, 114, 111, 117, 112, 58>>, <<103, 58>>,                        \* group: g:
    <<116, 97, 103, 58>>, <<116, 58>>, <<97, 116, 97, 103, 58>>,         \* tag: t: atag:
    <<111, 115, 58>>, <<97, 109, 116, 58>>, <<100, 101, 115, 99, 58>>,   \* os: amt: desc:
    <<119, 115, 99, 58>> }                                               \* wsc:

\* predicate p is prefix:value with a prefix the language does not know
UnknownPrefix(p) == Contains(p, <<58>>) /\ \A x \in FilterPrefixes : ~StartsWith(p, x)

\* the parts of a filter: its " or " groups, and their " and " predicates
OrGroups(f) == Split(f, <<32, 111, 114, 32>>)
AndPredicates(g) == Split(g, <<32, 97, 110, 100, 32>>)
Range(q) == {q[i] : i \in 1..Len(q)}

\* device n satisfies predicate p: g:/group: by the name of its device
\* group, t:/tag: by its agent tag, a predicate without prefix by its name;
\* the search value is a substring of the field
Satisfies(n, p, groups) ==
  IF StartsWith(p, <<103, 58>>) THEN Contains(groups[n.meshid], SubSeq(p, 3, Len(p)))
  ELSE IF StartsWith(p, <<103, 114, 111, 117, 112, 58>>) THEN Contains(groups[n.meshid], SubSeq(p, 7, Len(p)))
  ELSE IF StartsWith(p, <<116, 58>>) THEN Contains(n.tag, SubSeq(p, 3, Len(p)))
  ELSE IF StartsWith(p, <<116, 97, 103, 58>>) THEN Contains(n.tag, SubSeq(p, 5, Len(p)))
  ELSE Contains(n.name, p)

\* the devices of nodes that satisfy every predicate of some group of f
OrOfAnd(nodes, f, groups) ==
  {n \in Range(nodes) :
     \E g \in Range(OrGroups(f)) : \A p \in Range(AndPredicates(g)) : Satisfies(n, p, groups)}

\* C15: the device filter is an OR of ANDs: the result is the union over the
\* " or " groups of the intersection over the " and " predicates of the
\* devices each predicate matches, each such device exactly once.
C15_FilterIsOrOfAnd ==
  (fn = "parse_and_search_nodes"
     /\ \A g \in Range(OrGroups(arg.filter)) : \A p \in Range(AndPredicates(g)) : ~UnknownPrefix(p)) =>
    /\ ret.ok
    /\ ~IsNone(ret.v)
    /\ Range(ret.v) = OrOfAnd(arg.nodes, arg.filter, arg.device_groups)
    /\ Len(ret.v) = Cardinality(Range(ret.v))

\* C16: a predicate prefix:value with a prefix the language does not know
\* fails with UnsupportedFilter; the call does not return a device list.
C16_UnknownPrefixIsUnsupportedFilter ==
  (fn \in FilterHelpers
     /\ \E g \in Range(OrGroups(arg.filter)) : \E p \in Range(AndPredicates(g)) : UnknownPrefix(p)) =>
    /\ ~ret.ok
    /\ ret.exc = "UnsupportedFilter"

\* C17: the filter "g:lab and t:prod" returns exactly the devices whose
\* device group's name contains "lab" and whose agent tag contains "prod".
C17_GroupAndTagFilter ==
  (fn = "parse_and_search_nodes"
     /\ arg.filter = <<103, 58, 108, 97, 98, 32, 97, 110, 100, 32, 116, 58, 112, 114, 111, 100>>) =>
    /\ ret.ok
    /\ ~IsNone(ret.v)
    /\ Range(ret.v) = {n \in Range(arg.nodes) :
                         /\ Contains(arg.device_groups[n.meshid], <<108, 97, 98>>)
                         /\ Contains(n.tag, <<112, 114, 111, 100>>)}

\* C18: device_group_exists and user_exists, called with an id and no
\* name, return True exactly when a listed item has that _id; called with a
\* name, exactly when a listed item has that name, also when an id is given
\* as well.
C18_ExistsByNameOrById ==
  (fn \in {"device_group_exists", "user_exists"} /\ (Truthy(arg.name) \/ Truthy(arg.id))) =>
    /\ ret.ok
    /\ ret.found = IF Truthy(arg.name)
                 THEN \E i \in 1..Len(arg.listed) : arg.listed[i].name = arg.name.v
                 ELSE \E i \in 1..Len(arg.listed) : arg.listed[i]._id = arg.id.v

\* the bit of a right's name, 0 for a name that is none
RightBit(name) ==
  IF name = <<114, 101, 99, 111, 114, 100, 105, 110, 103, 115>> THEN 512     \* recordings
  ELSE IF \E i \in (1..Len(PermChain)) \ {10} : PermChain[i].name = name
    THEN PermChain[CHOOSE i \in (1..Len(PermChain)) \ {10} : PermChain[i].name = name].bit
  ELSE 0

RECURSIVE SumBits(_)
SumBits(S) == IF S = {} THEN 0 ELSE LET x == CHOOSE y \in S : TRUE IN x + SumBits(S \ {x})

\* the rights value of a comma-separated list of names: 0 for "none",
\* 0xFFFFFFFF for "full", else the bitwise OR of the bits of the names
\* (distinct powers of two, so their sum)
RightsValue(rights) ==
  LET names == Range(Split(rights, <<44>>))
  IN IF <<110, 111, 110, 101>> \in names THEN U32(0, 0)
     ELSE IF <<102, 117, 108, 108>> \in names THEN U32(65535, 65535)
     ELSE U32(0, SumBits({RightBit(x) : x \in names}))

\* C19: the rights argument of add_user and edit_user, a comma-separated
\* list of names, becomes the siteadmin number that is the bitwise OR of the
\* bits of the names listed; "none" gives 0 and "full" 0xFFFFFFFF.
C19_RightsAreOrOfBits ==
  (fn \in {"add_user", "edit_user"} /\ Truthy(arg.rights)) =>
    /\ ret.ok
    /\ ret.siteadmin.set
    /\ ret.siteadmin.n = RightsValue(arg.rights.v)

\* C20: the inbound messages are examined in arrival order and the call
\* returns the first one that matches, a message with a responseid by its
\* responseid alone, one without by its action. With hist the messages the
\* call consumed, in order: a message the call returned is the last of hist,
\* it matches and none before it does; and a message of hist that matches is
\* the last of hist and is what the call returned, so none is consumed after
\* the first match.
C20_ReturnsFirstMatchInArrivalOrder ==
  \A c \in Calls :
    pc[c] # "idle" =>
      /\ (result[c].kind = "return" /\ ~IsNone(result[c].value)) =>
           /\ hist # <<>>
           /\ result[c].value = hist[Len(hist)]
           /\ result[c].seq = Len(hist)
           /\ Answers(data[c], result[c].value)
           /\ \A i \in 1..(Len(hist) - 1) : ~Answers(data[c], hist[i])
      /\ \A i \in 1..Len(hist) :
           Answers(data[c], hist[i]) =>
             /\ i = Len(hist)
             /\ result[c].kind = "return"
             /\ result[c].value = hist[i]

\* C20 witness: a request with a responseid skipped a message carrying
\* another responseid and its own action, then returned a message without
\* responseid, matched by action.
C20_Witness ==
  \E c \in Calls :
    /\ "responseid" \in DOMAIN data[c]
    /\ Len(hist) = 2
    /\ "responseid" \in DOMAIN hist[1]
    /\ hist[1].action = data[c].action
    /\ "responseid" \notin DOMAIN hist[2]
    /\ result[c].kind = "return"
    /\ result[c].value = hist[2]

\* C21 (its safety half): a call that has connected terminates only when a
\* matching reply arrives or the connection closes; while the connection
\* stays open and only non-matching messages arrive it stays blocked.
\* Stated for the messages of the protocol, JSON objects with an action.
C21_TerminatesOnlyOnReplyOrClose ==
  \A c \in Calls :
    (pc[c] = "done" /\ ws[c] # 0) =>
      \/ /\ result[c].kind = "return"
         /\ ~IsNone(result[c].value)
         /\ Answers(data[c], result[c].value)
      \/ conns[ws[c]].peer # ""
      \/ /\ result[c].kind = "raise"
         /\ conns[ws[c]].peer = ""
         /\ "action" \notin DOMAIN result[c].value

\* C22: when establishing the connection fails, the call fails with a
\* connection error, returns no reply, has written no envelope and leaves
\* no connection behind.
C22_ConnectFailureLeavesNothing ==
  \A c \in Calls :
    (pc[c] = "done" /\ ws[c] = 0) =>
      /\ result[c] = [kind |-> "raise", exc |-> "ConnectionError"]
      /\ conns[c].state = "none"
      /\ conns[c].written = <<>>
      /\ conns[c].nrecv = 0

\* C22 witness: one call failed to connect while another is connected.
C22_Witness ==
  \E c, d \in Calls :
    /\ c # d
    /\ pc[c] = "done" /\ ws[c] = 0
    /\ result[c].kind = "raise" /\ result[c].exc = "ConnectionError"
    /\ conns[d].state = "open"

\* how far a call has come: called, connecting, sending, receiving, ended
Rank(p) ==
  CASE p = "idle" -> 0
    [] p = "connect" -> 1
    [] p = "send" -> 2
    [] p = "recv" -> 3
    [] p = "done" -> 4

\* C23: no retries. A call never goes back to an earlier step, so it makes
\* one connection attempt and one write at most: its connection opens only
\* in the step that leaves "connect" and was never open before, and its
\* envelope is written only in the step that leaves "send", once.
C23_NoRetry ==
  [][\A c \in Calls :
       /\ Rank(pc'[c]) >= Rank(pc[c])
       /\ (conns'[c].state = "open" /\ conns[c].state # "open") =>
            /\ pc[c] = "connect" /\ pc'[c] = "send"
            /\ conns[c].state = "none"
       /\ conns'[c].written # conns[c].written =>
            /\ pc[c] = "send" /\ pc'[c] = "recv"
            /\ conns'[c].written = <<data[c]>>]_vars

\* C23 witness: one call failed in send, another failed after its write; both
\* ended with an error and neither tried again.
C23_Witness ==
  \E c, d \in Calls :
    /\ pc[c] = "done" /\ pc[d] = "done"
    /\ result[c].kind = "raise" /\ ws[c] # 0 /\ conns[c].written = <<>>
    /\ result[d].kind = "raise" /\ conns[d].written = <<data[d]>>

\* the long prefixes that have a short form: user: group: tag:
LongPrefixes ==
  { <<117, 115, 101, 114, 58>>, <<103, 114, 111, 117, 112, 58>>, <<116, 97, 103, 58>> }

\* a predicate with a long prefix written with the short one: its first
\* letter, then everything from the colon on
ShortForm(p) ==
  LET x == CHOOSE y \in LongPrefixes : StartsWith(p, y)
  IN <<p[1]>> \o SubSeq(p, Len(x), Len(p))

\* C24: a predicate written with 'user:', 'group:' or 'tag:' matches exactly
\* the devices the same predicate written with 'u:', 'g:' or 't:' matches:
\* the call returns a device list, the one the short form returns.
C24_AliasPrefixesEquivalent ==
  (fn \in FilterHelpers /\ \E x \in LongPrefixes : StartsWith(arg.filter, x)) =>
    /\ ret.ok
    /\ ret = FilterCall(fn, arg.nodes, ShortForm(arg.filter), arg.device_groups)

\* C25: a call that has terminated, by a return or by an exception, has
\* no open connection: the one it opened is closed, and a call whose
\* connect failed opened none. So once every call has terminated no
\* connection is open.
C25_NoConnectionOutlivesItsCall ==
  \A c \in Calls :
    pc[c] = "done" =>
      /\ conns[c].state # "open"
      /\ ws[c] # 0 => conns[ws[c]].state = "closed"

\* C25 witness: every call has terminated, one by returning its reply and
\* one by an exception raised on a message it received.
C25_Witness ==
  /\ \A c \in Calls : pc[c] = "done"
  /\ \E c, d \in Calls :
       /\ result[c].kind = "return" /\ ~IsNone(result[c].value) /\ conns[ws[c]].state = "closed"
       /\ result[d].kind = "raise" /\ ws[d] # 0 /\ conns[ws[d]].peer = ""
       /\ conns[ws[d]].state = "closed"

\* the arguments the operation refuses: neither group nor id, neither
\* password nor random_pass, an id that starts with none of user/ mesh/ node/
InvalidArgs(method, a) ==
  CASE method \in {"device_group_exists", "remove_device_group", "edit_device_group"} ->
         ~Truthy(a.group) /\ ~Truthy(a.id)
    [] method = "add_user" -> ~Truthy(a.password) /\ ~a.random_pass
    [] method \in {"add_to_user_group", "remove_from_user_group"} ->
         /\ ~StartsWith(a.id, <<117, 115, 101, 114, 47>>)
         /\ ~StartsWith(a.id, <<109, 101, 115, 104, 47>>)
         /\ ~StartsWith(a.id, <<110, 111, 100, 101, 47>>)

\* C26: an operation called with arguments it refuses raises ValueError and
\* has touched no network: no connection was opened and no envelope written.
C26_ValidationPrecedesNetwork ==
  \A c \in Calls :
    (pc[c] # "idle" /\ fn \in Methods /\ InvalidArgs(fn, arg)) =>
      /\ pc[c] = "done"
      /\ result[c] = [kind |-> "raise", exc |-> "ValueError"]
      /\ ws[c] = 0
      /\ \A k \in DOMAIN conns : conns[k] = NoConn

\* C26 witness: add_to_user_group was called with an id that starts with
\* none of the three prefixes and has raised ValueError.
C26_Witness ==
  \E c \in Calls :
    /\ fn = "add_to_user_group" /\ InvalidArgs(fn, arg) /\ arg.id # <<>>
    /\ pc[c] = "done"
    /\ result[c].kind = "raise" /\ result[c].exc = "ValueError"

====
